---- MODULE Spec2Model ----
(***************************************************************************)
(* The WASM module loader of did-zk-client and the worker channel under    *)
(* it: src/lib/wasm-loader.ts (WASMLoader), src/lib/wasm-worker-client.ts  *)
(* (WASMWorkerClient), src/lib/worker-factory.ts and the worker script     *)
(* (WASMWorkerManager and its message listener).                           *)
(*                                                                         *)
(* JavaScript runs each task to completion: an action is one task (an API  *)
(* call from the page, a timer callback, a message or error event of the   *)
(* worker, the completion of a fetch) together with the promise            *)
(* continuations that run in the microtask checkpoint of that task.        *)
(* Timers are flags that may fire at any time while they are armed.        *)
(***************************************************************************)
EXTENDS Integers, FiniteSets, Sequences, TLC

\* ---- bounds of the model ----
MaxReq == 3
MaxInits == 2
MaxLoads == 2
MaxWorkerLoads == 1
MaxCalls == 2
MaxInvokes == 1
MaxFetches == 1
MaxFetchCalls == 2
MaxSessions == 2
MaxTicks == 3
DeclaredMax == 3
MaxTransfers == 2

\* ---- constants of the program ----
maxRetries == 2
CACHE_PREFIX == "gnark-did-wasm"
CACHE_EXPIRY == 7 * 24 * 60 * 60 * 1000
LARGE_WASM_THRESHOLD == 15 * 1024 * 1024
CACHE_NAME == "gnark-did-wasm-v1.0.1"
WASM_CACHE_NAME == "gnark-did-wasm-files-v1.0.1"

ReqIds == 1..MaxReq
InitIds == 1..MaxInits
LoadIds == 1..MaxLoads
BothIds == 1..(MaxLoads - 1)
Modules == {"crypto", "did"}
FetchIds == 1..MaxFetches

\* The paths of the two modules and the versions of the loader, as strings
\* cut into the pieces that matter to getCacheKey.
Paths == {<<"/", "crypto.wasm">>, <<"/", "did.wasm">>}
Versions == {<<"1.0.1">>, <<"1.0.2">>}

VARIABLES
    workerSupported,   \* whether `new Worker(...)` succeeds in this environment
    workerInstance,    \* worker-factory.ts: workerInstance (0 = null)
    created,           \* number of Worker objects constructed so far
    alive,             \* the workers constructed and not terminated
    readySent,         \* the alive workers that have posted WORKER_READY
    inbox,             \* messages posted to a worker and not yet answered
    answered,          \* RESPONSE messages the alive workers have posted
    worker,            \* WASMWorkerClient.worker (0 = null)
    isReady,           \* WASMWorkerClient.isReady
    initPromise,       \* WASMWorkerClient.initPromise (0 = null)
    messageId,         \* WASMWorkerClient.messageId
    pendingPromises,   \* keys of WASMWorkerClient.pendingPromises
    inits,             \* the promises made by ensureReady -> initializeWorker(0)
    nInits,
    reqs,              \* the sendMessage calls: position and promise of each
    nReq,
    loaded,            \* WASMLoader.cryptoLoaded and didLoaded
    loadingPromises,   \* WASMLoader.loadingPromises: crypto, did, both (0 = absent,
                       \* Done = a promise that has resolved)
    useWebWorker,      \* WASMLoader.useWebWorker
    loads,             \* the promises of _loadCryptoInternal and _loadDIDInternal,
                       \* with the position of each
    boths,             \* the promises of _loadBothInternal
    started,           \* per module: the internal loads loadCrypto/loadDID have
                       \* started since the last failure, reset or completion
    errored,           \* the workers whose 'error' event has been recorded
    hasCaches,         \* whether 'caches' in window holds in this session
    hasStreaming,      \* whether WebAssembly.instantiateStreaming is a function
    Go,                \* whether window.Go is defined (wasm_exec.js has run)
    version,           \* WASMLoader.WASM_VERSION of the code this session runs
    now,               \* Date.now()
    store,             \* the Cache Storage named CACHE_PREFIX: key -> entry
    written,           \* per path and version: the payload and time of the last
                       \* cacheWasm whose cache.put was accepted and whose entry
                       \* has not been deleted since
    fetches,           \* the main-thread loads in progress: position, payload
                       \* and the percent values reported so far
    nFetches,
    nSessions,
    info,              \* the result of a getCacheInfo() that has just returned
    call,              \* the helper call (generateKeyPair, ...) last made on
                       \* the loaded modules, with its outcome
    traffic,           \* per module: the fetches of its payload and the writes
                       \* of its payload to the Cache Storage, counted
    stale              \* the loads in flight that were started before the last
                       \* cleanup, resetToMainThread or reloadWASMModules

chanVars == <<workerSupported, workerInstance, created, alive, readySent, inbox,
              answered, worker, isReady, initPromise, messageId, pendingPromises,
              inits, nInits, reqs, nReq>>

loaderVars == <<loaded, loadingPromises, useWebWorker, loads, boths, started>>

fetchVars == <<hasCaches, hasStreaming, Go, version, now, store, written,
               fetches, nFetches, nSessions, info>>

vars == <<chanVars, loaderVars, errored, fetchVars, call, traffic, stale>>

NoInit == [state |-> "none", retry |-> 0, timer |-> FALSE, w |-> 0]
NoLoad == [kind |-> "none", parent |-> 0, phase |-> "none", wws |-> FALSE,
           req |-> 0, workerFailed |-> FALSE, inlineTries |-> 0, callers |-> 0]
NoBoth == [state |-> "none", left |-> 0]
NoFetch == [pc |-> "idle", path |-> << >>, total |-> 0, received |-> 0,
            result |-> << >>, hit |-> FALSE, warned |-> FALSE,
            percents |-> << >>]
InstantiateOutcomes == {"ok", "goError", "error"}
NoInfo == [size |-> -1, entries |-> {}]
NoValue == [type |-> "undefined", of |-> ""]
NoCall == [pc |-> "none", fn |-> "", present |-> FALSE, text |-> "",
           status |-> "", value |-> NoValue, cause |-> ""]
NoReq == [pc |-> "none", init |-> 0, id |-> -1, type |-> "", payload |-> "",
          timer |-> FALSE, result |-> "", settles |-> 0]

\* The functions the loaded modules install in the worker's global scope.
WorkerFunctions == {"generateKeyPair"}

\* What the page asks the worker through the client's public methods.
ClientOps == {[type |-> "PING", payload |-> ""],
              [type |-> "EXECUTE_WASM_FUNCTION", payload |-> "generateKeyPair"],
              [type |-> "EXECUTE_WASM_FUNCTION", payload |-> "noSuchFunction"]}

\* wasmWorkerClient.loadCrypto() and loadDID().
LoadOps == {[type |-> "LOAD_CRYPTO", payload |-> ""],
            [type |-> "LOAD_DID", payload |-> ""]}

\* What getWorkerStatus() and pingWorker() ask the worker.
StatusOps == {[type |-> "GET_STATUS", payload |-> ""],
              [type |-> "PING", payload |-> ""]}

\* What the loader asks the worker outside a load (getWorkerStatus and
\* pingWorker take the same path with the types GET_STATUS and PING).
LoaderOps == {[type |-> "EXECUTE_WASM_FUNCTION", payload |-> "generateKeyPair"]}

Settled == {"resolved", "rejected"}

\* An entry of loadingPromises whose promise has resolved.
Done == -1

\* ---------------------------------------------------------------------
\* Promise plumbing of sendMessage
\* ---------------------------------------------------------------------

\* One call of the resolve/reject continuation of a sendMessage promise: the
\* first call decides the promise, `settles` counts the calls.
Settle(req, how, res) ==
    [req EXCEPT !.pc = IF req.pc \in Settled THEN req.pc ELSE how,
                !.result = IF req.pc \in Settled THEN req.result ELSE res,
                !.timer = FALSE,
                !.settles = IF req.settles < 2 THEN req.settles + 1 ELSE 2]

\* The calls suspended in ensureReady on initialization p, in call order.
Waiters(p) == {r \in ReqIds : reqs[r].pc = "init" /\ reqs[r].init = p}

Rank(r, S) == Cardinality({q \in S : q < r})

\* The body of sendMessage after ensureReady: the request of call r, with
\* correlation id `id`, as registered in pendingPromises with its 60 s timer.
Posted(req, id) == [req EXCEPT !.pc = "pending", !.id = id, !.timer = TRUE]

\* The workers' side of the bookkeeping: `kill` are terminated (their queued
\* messages are discarded with them), `new` is constructed, `posts` are the
\* messages postMessage hands to a worker.
Workers(kill, new, posts) ==
    /\ alive' = (alive \ kill) \cup (IF new # 0 THEN {new} ELSE {})
    /\ readySent' = readySent \ kill
    /\ inbox' = {m \in inbox : m.w \notin kill}
                   \cup {m \in posts : m.w \in (alive \ kill)}
    /\ answered' = {a \in answered : a.w \notin kill}

\* A factory that would leave its previous instance running.
FactoryKill_none == {}

\* createWASMWorker: the instance it terminates, and the one it returns
\* (0 when every construction method throws).
FactoryKill == IF workerInstance # 0 THEN {workerInstance} ELSE {}
NewWorker == IF workerSupported THEN created + 1 ELSE 0

createWASMWorker ==
    /\ workerInstance' = NewWorker
    /\ created' = IF NewWorker # 0 THEN created + 1 ELSE created

\* ensureReady's continuations when initialization p is rejected: every
\* waiter clears initPromise and isReady and rethrows into its sendMessage.
RejectWaiters(p, err) ==
    /\ reqs' = [r \in ReqIds |->
                  IF r \in Waiters(p) THEN Settle(reqs[r], "rejected", err)
                  ELSE reqs[r]]
    /\ IF Waiters(p) # {}
       THEN initPromise' = 0 /\ isReady' = FALSE
       ELSE UNCHANGED <<initPromise, isReady>>
    /\ UNCHANGED <<messageId, pendingPromises>>

\* ensureReady's continuations when initialization p is resolved (isReady
\* has just been set): every waiter runs the body of sendMessage.
ResumeWaiters(p) ==
    LET W == Waiters(p) IN
    IF worker = 0
    THEN /\ reqs' = [r \in ReqIds |->
                       IF r \in W THEN Settle(reqs[r], "rejected", "not_initialized")
                       ELSE reqs[r]]
         /\ UNCHANGED <<messageId, pendingPromises>>
    ELSE /\ reqs' = [r \in ReqIds |->
                       IF r \in W THEN Posted(reqs[r], messageId + Rank(r, W))
                       ELSE reqs[r]]
         /\ messageId' = messageId + Cardinality(W)
         /\ pendingPromises' =
               [i \in DOMAIN pendingPromises \cup
                      {messageId + Rank(r, W) : r \in W} |->
                  IF \E r \in W : i = messageId + Rank(r, W)
                  THEN CHOOSE r \in W : i = messageId + Rank(r, W)
                  ELSE pendingPromises[i]]

ResumePosts(p) ==
    IF worker = 0 THEN {}
    ELSE {[w |-> worker, id |-> messageId + Rank(r, Waiters(p)),
           type |-> reqs[r].type, payload |-> reqs[r].payload] : r \in Waiters(p)}

\* ---------------------------------------------------------------------
\* WASMWorkerClient
\* ---------------------------------------------------------------------

\* initializeWorker(0) as ensureReady starts it for call r: the 10 s timer
\* is armed, the factory replaces its worker, and the listeners are put on
\* the new worker. When the factory throws, the promise is rejected at once
\* (the timer stays armed) and ensureReady's catch runs for the caller.
initializeWorker(p, r, req) ==
    /\ nInits < MaxInits
    /\ p = nInits + 1
    /\ nInits' = p
    /\ createWASMWorker
    /\ Workers(FactoryKill, NewWorker, {})
    /\ UNCHANGED <<messageId, pendingPromises>>
    /\ IF NewWorker # 0
       THEN /\ inits' = [inits EXCEPT ![p] = [state |-> "pending", retry |-> 0,
                                              timer |-> TRUE, w |-> NewWorker]]
            /\ worker' = NewWorker
            /\ initPromise' = p
            /\ isReady' = isReady
            /\ reqs' = [reqs EXCEPT ![r] = [req EXCEPT !.pc = "init", !.init = p]]
       ELSE /\ inits' = [inits EXCEPT ![p] = [state |-> "rejected", retry |-> 0,
                                              timer |-> TRUE, w |-> 0]]
            /\ worker' = worker
            /\ initPromise' = 0
            /\ isReady' = FALSE
            /\ reqs' = [reqs EXCEPT ![r] = Settle(req, "rejected", "create_failed")]

\* A test that would take the memoized promise only once it has settled.
ensureReady_unmemoized ==
    IF initPromise # 0 /\ inits[initPromise].state = "pending" THEN 0
    ELSE initPromise

\* ensureReady's test of the memoized promise: the initialization a call
\* made now awaits (0 when it has to start one).
ensureReady == initPromise

\* sendMessage(type, payload): ensureReady, then the promise body.
sendMessage(type, payload) ==
    /\ nReq < MaxReq
    /\ nReq' = nReq + 1
    /\ LET r == nReq + 1
           req == [NoReq EXCEPT !.type = type, !.payload = payload]
       IN
       IF ensureReady = 0
       THEN initializeWorker(nInits + 1, r, req)
       ELSE
         /\ UNCHANGED <<workerInstance, created, alive, readySent, answered,
                        worker, inits, nInits>>
         /\ CASE inits[initPromise].state = "pending" ->
                   \* joins the initialization in flight
                   /\ reqs' = [reqs EXCEPT ![r] =
                                 [req EXCEPT !.pc = "init", !.init = initPromise]]
                   /\ UNCHANGED <<isReady, initPromise, messageId,
                                  pendingPromises, inbox>>
              [] inits[initPromise].state = "rejected" ->
                   /\ reqs' = [reqs EXCEPT ![r] = Settle(req, "rejected", "init_failed")]
                   /\ initPromise' = 0
                   /\ isReady' = FALSE
                   /\ UNCHANGED <<messageId, pendingPromises, inbox>>
              [] inits[initPromise].state = "resolved" /\ ~isReady ->
                   /\ reqs' = [reqs EXCEPT ![r] = Settle(req, "rejected", "not_ready")]
                   /\ initPromise' = 0
                   /\ isReady' = FALSE
                   /\ UNCHANGED <<messageId, pendingPromises, inbox>>
              [] inits[initPromise].state = "resolved" /\ isReady /\ worker = 0 ->
                   /\ reqs' = [reqs EXCEPT ![r] =
                                 Settle(req, "rejected", "not_initialized")]
                   /\ UNCHANGED <<isReady, initPromise, messageId,
                                  pendingPromises, inbox>>
              [] inits[initPromise].state = "resolved" /\ isReady /\ worker # 0 ->
                   /\ reqs' = [reqs EXCEPT ![r] = Posted(req, messageId)]
                   /\ messageId' = messageId + 1
                   /\ pendingPromises' =
                         [i \in DOMAIN pendingPromises \cup {messageId} |->
                            IF i = messageId THEN r ELSE pendingPromises[i]]
                   /\ inbox' = inbox \cup
                         {m \in {[w |-> worker, id |-> messageId, type |-> type,
                                  payload |-> payload]} : m.w \in alive}
                   /\ UNCHANGED <<isReady, initPromise>>

\* A listener that would hand a RESPONSE to the oldest entry of the map
\* instead of the entry of the response's id.
handleWorkerMessage_oldest(resp) ==
    IF DOMAIN pendingPromises # {}
    THEN LET id == CHOOSE i \in DOMAIN pendingPromises :
                      \A j \in DOMAIN pendingPromises : i <= j
             r == pendingPromises[id]
         IN
         /\ pendingPromises' = [i \in DOMAIN pendingPromises \ {id} |->
                                  pendingPromises[i]]
         /\ reqs' = [reqs EXCEPT ![r] =
                       Settle(reqs[r],
                              IF resp.success THEN "resolved" ELSE "rejected",
                              resp.result)]
    ELSE UNCHANGED <<pendingPromises, reqs>>

\* A listener that would call the continuation and leave the entry in the map.
handleWorkerMessage_kept(resp) ==
    IF resp.id \in DOMAIN pendingPromises
    THEN /\ reqs' = [reqs EXCEPT ![pendingPromises[resp.id]] =
                       Settle(reqs[pendingPromises[resp.id]],
                              IF resp.success THEN "resolved" ELSE "rejected",
                              resp.result)]
         /\ UNCHANGED pendingPromises
    ELSE UNCHANGED <<pendingPromises, reqs>>

\* handleWorkerMessage for a RESPONSE event: the entry of the response's id,
\* if there is one, is deleted and its continuation called (which clears the
\* request's timer); any other id is ignored.
handleWorkerMessage(resp) ==
    IF resp.id \in DOMAIN pendingPromises
    THEN LET r == pendingPromises[resp.id] IN
         /\ pendingPromises' = [i \in DOMAIN pendingPromises \ {resp.id} |->
                                  pendingPromises[i]]
         /\ reqs' = [reqs EXCEPT ![r] =
                       Settle(reqs[r],
                              IF resp.success THEN "resolved" ELSE "rejected",
                              resp.result)]
    ELSE UNCHANGED <<pendingPromises, reqs>>

\* The 60 s timer of call r fires.
requestTimeout(r) ==
    /\ reqs[r].timer
    /\ IF reqs[r].id \in DOMAIN pendingPromises
       THEN /\ pendingPromises' = [i \in DOMAIN pendingPromises \ {reqs[r].id} |->
                                     pendingPromises[i]]
            /\ reqs' = [reqs EXCEPT ![r] = Settle(reqs[r], "rejected", "timeout")]
       ELSE /\ reqs' = [reqs EXCEPT ![r].timer = FALSE]
            /\ UNCHANGED pendingPromises

\* terminateWASMWorker of the factory.
terminateWASMWorker ==
    /\ workerInstance' = 0
    /\ Workers(FactoryKill, 0, {})

\* A terminate() that would start the correlation ids again.
terminate_resetIds ==
    IF worker # 0
    THEN /\ terminateWASMWorker
         /\ worker' = 0
         /\ isReady' = FALSE
         /\ initPromise' = 0
         /\ pendingPromises' = << >>
         /\ messageId' = 0
         /\ UNCHANGED <<created, inits, nInits, reqs, nReq>>
    ELSE UNCHANGED <<workerInstance, created, alive, readySent, inbox, answered,
                     worker, isReady, initPromise, messageId, pendingPromises,
                     inits, nInits, reqs, nReq>>

\* terminate().
terminate ==
    IF worker # 0
    THEN /\ terminateWASMWorker
         /\ worker' = 0
         /\ isReady' = FALSE
         /\ initPromise' = 0
         /\ pendingPromises' = << >>
         /\ UNCHANGED <<created, messageId, inits, nInits, reqs, nReq>>
    ELSE UNCHANGED <<workerInstance, created, alive, readySent, inbox, answered,
                     worker, isReady, initPromise, messageId, pendingPromises,
                     inits, nInits, reqs, nReq>>

\* A test that would let every timeout retry.
retryAllowed_always(p) == inits[p].retry < maxRetries + 2

\* The timeout callback's test retryCount < maxRetries.
retryAllowed(p) == inits[p].retry < maxRetries

\* The 10 s timer of initialization p fires.
initTimeout(p) ==
    /\ inits[p].timer
    /\ UNCHANGED <<nInits, nReq>>
    /\ IF retryAllowed(p)
       THEN \* this.worker is terminated and initializeWorker(retry + 1) runs
            /\ createWASMWorker
            /\ Workers((IF worker # 0 THEN {worker} ELSE {}) \cup FactoryKill,
                       NewWorker, {})
            /\ worker' = NewWorker
            /\ IF NewWorker # 0
               THEN /\ inits' = [inits EXCEPT ![p].retry = @ + 1, ![p].w = NewWorker]
                    /\ UNCHANGED <<isReady, initPromise, messageId,
                                   pendingPromises, reqs>>
               ELSE /\ inits' = [inits EXCEPT ![p].retry = @ + 1, ![p].w = 0,
                                              ![p].state = "rejected"]
                    /\ RejectWaiters(p, "create_failed")
       ELSE /\ inits' = [inits EXCEPT ![p].timer = FALSE,
                                      ![p].state = IF @ = "pending" THEN "rejected"
                                                   ELSE @]
            /\ RejectWaiters(p, "init_timeout")
            /\ UNCHANGED <<workerInstance, created, alive, readySent, inbox,
                           answered, worker>>

\* Worker w posts WORKER_READY and readyHandler of the attempt that made w
\* receives it.
workerReady(w, p) ==
    /\ w \in alive
    /\ w \notin readySent
    /\ inits[p].state # "none"
    /\ inits[p].w = w
    /\ isReady' = TRUE
    /\ inits' = [inits EXCEPT ![p].timer = FALSE,
                              ![p].state = IF @ = "pending" THEN "resolved" ELSE @]
    /\ readySent' = readySent \cup {w}
    /\ IF inits[p].state = "pending"
       THEN /\ ResumeWaiters(p)
            /\ inbox' = inbox \cup {m \in ResumePosts(p) : m.w \in alive}
       ELSE UNCHANGED <<reqs, messageId, pendingPromises, inbox>>
    /\ UNCHANGED <<workerInstance, created, alive, answered, worker, initPromise,
                   nInits, nReq>>

\* The 'error' event of worker w reaches the listener of the attempt that
\* made w.
workerError(w, p) ==
    /\ w \in alive
    /\ inits[p].state # "none"
    /\ inits[p].w = w
    /\ inits' = [inits EXCEPT ![p].timer = FALSE,
                              ![p].state = IF @ = "pending" THEN "rejected" ELSE @]
    /\ RejectWaiters(p, "worker_error")
    /\ UNCHANGED <<workerInstance, created, alive, readySent, inbox, answered,
                   worker, nInits, nReq>>

\* ---------------------------------------------------------------------
\* The worker script
\* ---------------------------------------------------------------------

\* executeWASMFunction in the worker: the explicit check, then the call.
executeWASMFunction(functionName) ==
    IF functionName \notin WorkerFunctions
    THEN [success |-> FALSE, result |-> "function_not_available"]
    ELSE [success |-> TRUE, result |-> functionName]

\* The worker's message listener: the RESPONSE it posts for message m.
\* `ok` is whether the module load a LOAD_ message asks for succeeds.
WorkerReply(m, ok) ==
    LET out ==
          CASE m.type \in {"LOAD_CRYPTO", "LOAD_DID"} ->
                 IF ok THEN [success |-> TRUE, result |-> "loaded"]
                 ELSE [success |-> FALSE, result |-> "load_failed"]
            [] m.type = "EXECUTE_WASM_FUNCTION" -> executeWASMFunction(m.payload)
            [] m.type = "GET_STATUS" -> [success |-> TRUE, result |-> "status"]
            [] m.type = "PING" -> [success |-> TRUE, result |-> "pong"]
            [] OTHER -> [success |-> FALSE, result |-> "unknown_type"]
    IN [w |-> m.w, id |-> m.id, success |-> out.success, result |-> out.result]

\* ---------------------------------------------------------------------
\* WASMLoader
\* ---------------------------------------------------------------------

MsgOf(m) == IF m = "crypto" THEN "LOAD_CRYPTO" ELSE "LOAD_DID"

\* checkWebWorkerSupport: typeof Worker !== 'undefined'.
checkWebWorkerSupport == workerSupported

\* The loads in flight, and the records that can hold a new promise.
Running == {l \in LoadIds : loads[l].phase \in {"probe", "worker", "inline"}}

Slots == LoadIds \ Running

Slot(S) == CHOOSE l \in S : \A k \in S : l <= k

BothSlots == {b \in BothIds : boths[b].state # "running"}

\* The promises that are still of interest: a settled promise is dropped
\* by the step that follows the one that settled it.
live == [l \in LoadIds |-> IF l \in Running THEN loads[l] ELSE NoLoad]

liveBoths == [b \in BothIds |-> IF b \in BothSlots THEN NoBoth ELSE boths[b]]

\* A step that leaves the loader alone.
LoaderIdle ==
    /\ loads' = live
    /\ boths' = liveBoths
    /\ UNCHANGED <<loaded, loadingPromises, useWebWorker, started>>

\* _loadCryptoInternal / _loadDIDInternal up to their first await: the mode
\* flag and the support check are read, then the HEAD probe of the payload
\* size is in flight. `parent` is the _loadBothInternal that called it, 0
\* when loadCrypto/loadDID did.
internalLoad(m, parent, callers) ==
    [kind |-> m, parent |-> parent, phase |-> "probe",
     wws |-> (useWebWorker /\ checkWebWorkerSupport), req |-> 0,
     workerFailed |-> FALSE, inlineTries |-> 0, callers |-> callers]

\* The promise of a load once it has settled.
Over(load, how) ==
    [NoLoad EXCEPT !.kind = load.kind, !.phase = how,
                   !.workerFailed = load.workerFailed,
                   !.inlineTries = load.inlineTries,
                   !.callers = load.callers]

\* A failure, a reset or a completion that concerns the modules M ends the
\* period the counter `started` describes.
Restart(M) == [m \in Modules |-> IF m \in M THEN 0 ELSE started[m]]

\* _loadBothInternal b after one of its loads has settled: Promise.all
\* rejects with the first rejection and resolves when all have resolved.
ParentSettle(b, ok) ==
    IF b = 0 THEN liveBoths
    ELSE IF ~ok THEN [liveBoths EXCEPT ![b] = [state |-> "rejected", left |-> 0]]
    ELSE IF boths[b].left = 1
         THEN [liveBoths EXCEPT ![b] = [state |-> "resolved", left |-> 0]]
    ELSE [liveBoths EXCEPT ![b].left = @ - 1]

\* The loads after load l has settled as `how`: once Promise.all has
\* rejected, what the other load of the pair does no longer reaches it.
SettleLoad(l, how) ==
    [k \in LoadIds |->
       IF k = l THEN Over(loads[l], how)
       ELSE IF how = "rejected" /\ loads[l].parent # 0
               /\ live[k].parent = loads[l].parent
            THEN [live[k] EXCEPT !.parent = 0]
       ELSE live[k]]

\* Whether the rejection of load l runs the catch block of _loadBothInternal.
BothFails(l) == loads[l].parent # 0

\* The entries of loadingPromises after load l has resolved (bs are the
\* _loadBothInternal promises after it): a resolved promise stays in the map.
Resolved(l, bs) ==
    [k \in Modules \cup {"both"} |->
       IF k = "both"
       THEN IF loadingPromises[k] > 0 /\ bs[loadingPromises[k]].state = "resolved"
            THEN Done ELSE loadingPromises[k]
       ELSE IF loadingPromises[k] = l THEN Done ELSE loadingPromises[k]]

\* A lookup that would never find the in-flight promise.
inFlight_ignored(m) == 0

\* The lookup of loadingPromises.crypto / loadingPromises.did.
inFlight(m) == loadingPromises[m]

\* A load call that would not look at the loaded flag.
loadModule_unguarded(m) ==
    /\ boths' = liveBoths
    /\ UNCHANGED <<loaded, useWebWorker>>
    /\ IF inFlight(m) = 0
       THEN /\ Slots # {}
            /\ loads' = [live EXCEPT ![Slot(Slots)] = internalLoad(m, 0, 1)]
            /\ loadingPromises' = [loadingPromises EXCEPT ![m] = Slot(Slots)]
            /\ started' = [started EXCEPT ![m] = @ + 1]
       ELSE IF inFlight(m) = Done
       THEN /\ loads' = live
            /\ UNCHANGED <<loadingPromises, started>>
       ELSE /\ loads[inFlight(m)].callers < MaxCalls
            /\ loads' = [live EXCEPT ![inFlight(m)].callers = @ + 1]
            /\ UNCHANGED <<loadingPromises, started>>

\* loadCrypto() / loadDID().
loadModule(m) ==
    IF loaded[m]
    THEN LoaderIdle
    ELSE /\ boths' = liveBoths
         /\ UNCHANGED <<loaded, useWebWorker>>
         /\ IF inFlight(m) = 0
            THEN /\ Slots # {}
                 /\ loads' = [live EXCEPT ![Slot(Slots)] = internalLoad(m, 0, 1)]
                 /\ loadingPromises' = [loadingPromises EXCEPT ![m] = Slot(Slots)]
                 /\ started' = [started EXCEPT ![m] = @ + 1]
            ELSE IF inFlight(m) = Done
            THEN /\ loads' = live
                 /\ UNCHANGED <<loadingPromises, started>>
            ELSE /\ loads[inFlight(m)].callers < MaxCalls
                 /\ loads' = [live EXCEPT ![inFlight(m)].callers = @ + 1]
                 /\ UNCHANGED <<loadingPromises, started>>

\* loadBoth().
loadBoth ==
    IF loaded["crypto"] /\ loaded["did"]
    THEN LoaderIdle
    ELSE IF loadingPromises["both"] # 0
    THEN LoaderIdle
    ELSE LET M == {m \in Modules : ~loaded[m]}
             c == IF loaded["crypto"] THEN 0 ELSE Slot(Slots)
             d == IF loaded["did"] THEN 0 ELSE Slot(Slots \ {c})
             b == Slot(BothSlots)
         IN
         /\ Cardinality(Slots) >= Cardinality(M)
         /\ BothSlots # {}
         /\ boths' = [liveBoths EXCEPT ![b] = [state |-> "running",
                                               left |-> Cardinality(M)]]
         /\ loads' = [l \in LoadIds |->
                        IF l = c THEN internalLoad("crypto", b, 0)
                        ELSE IF l = d THEN internalLoad("did", b, 0)
                        ELSE live[l]]
         /\ loadingPromises' = [loadingPromises EXCEPT !["both"] = b]
         /\ UNCHANGED <<loaded, useWebWorker, started>>

\* What the HEAD request can come back with: a network error, a response
\* without a content-length header (size -1), or a declared size.
Probes ==
    {[ok |-> FALSE, size |-> -1], [ok |-> TRUE, size |-> -1]}
       \cup {[ok |-> TRUE, size |-> n] :
                n \in (LARGE_WASM_THRESHOLD - 1)..(LARGE_WASM_THRESHOLD + 1)}

\* shouldUseMainThreadForFile: true only for a declared size above the
\* threshold; the catch and a missing header fall through to false.
shouldUseMainThreadForFile(probe) ==
    probe.ok /\ probe.size >= 0 /\ probe.size > LARGE_WASM_THRESHOLD

\* The answers shouldUseMainThreadForFile can give.
ProbeAnswers == {shouldUseMainThreadForFile(probe) : probe \in Probes}

\* The HEAD probe of load l returns; `big` is shouldUseMainThreadForFile's
\* answer. The load goes to the worker or to the main thread.
probeDone(l, big) ==
    /\ loads[l].phase = "probe"
    /\ boths' = liveBoths
    /\ UNCHANGED <<loaded, loadingPromises, useWebWorker, started>>
    /\ IF loads[l].wws /\ ~big
       THEN /\ sendMessage(MsgOf(loads[l].kind), "")
            /\ loads' = [live EXCEPT ![l].phase = "worker", ![l].wws = FALSE,
                                     ![l].req = nReq + 1]
       ELSE /\ loads' = [live EXCEPT ![l].phase = "inline", ![l].wws = FALSE,
                                     ![l].inlineTries = @ + 1]
            /\ UNCHANGED chanVars

\* wasmWorkerClient.loadCrypto()/loadDID() of load l has settled: the module
\* is marked loaded, or the catch block downgrades the mode, deletes the
\* in-flight entry and starts loadWASMModuleMainThread.
loadWorkerSettled(l) ==
    /\ loads[l].phase = "worker"
    /\ reqs[loads[l].req].pc \in Settled
    /\ IF reqs[loads[l].req].pc = "resolved"
       THEN /\ loaded' = [loaded EXCEPT ![loads[l].kind] = TRUE]
            /\ loads' = SettleLoad(l, "resolved")
            /\ boths' = ParentSettle(loads[l].parent, TRUE)
            /\ loadingPromises' = Resolved(l, boths')
            /\ started' = Restart({loads[l].kind})
            /\ UNCHANGED useWebWorker
       ELSE /\ useWebWorker' = FALSE
            /\ loadingPromises' = [loadingPromises EXCEPT ![loads[l].kind] = 0]
            /\ loads' = [live EXCEPT ![l].phase = "inline",
                                     ![l].workerFailed = TRUE,
                                     ![l].inlineTries = @ + 1]
            /\ started' = Restart({loads[l].kind})
            /\ boths' = liveBoths
            /\ UNCHANGED loaded

\* loadWASMModuleMainThread of load l resolves: the module is marked loaded.
inlineResolved(l) ==
    /\ loaded' = [loaded EXCEPT ![loads[l].kind] = TRUE]
    /\ loads' = SettleLoad(l, "resolved")
    /\ boths' = ParentSettle(loads[l].parent, TRUE)
    /\ loadingPromises' = Resolved(l, boths')
    /\ started' = Restart({loads[l].kind})
    /\ UNCHANGED useWebWorker

\* A catch that would try the main thread once more.
inlineRejected_retried(l) ==
    /\ loads[l].inlineTries < 2
    /\ loads' = [live EXCEPT ![l].inlineTries = @ + 1]
    /\ boths' = liveBoths
    /\ UNCHANGED <<loaded, loadingPromises, useWebWorker, started>>

\* loadWASMModuleMainThread of load l rejects: the outer catch deletes the
\* in-flight entry and rethrows (into the catch of _loadBothInternal, which
\* deletes all three entries, when that is the caller).
inlineRejected(l) ==
    LET M == IF BothFails(l) THEN Modules ELSE {loads[l].kind} IN
    /\ loadingPromises' =
          IF BothFails(l) THEN [k \in Modules \cup {"both"} |-> 0]
          ELSE [loadingPromises EXCEPT ![loads[l].kind] = 0]
    /\ loads' = SettleLoad(l, "rejected")
    /\ boths' = ParentSettle(loads[l].parent, FALSE)
    /\ started' = Restart(M)
    /\ UNCHANGED <<loaded, useWebWorker>>

inlineDone(l, ok) ==
    /\ loads[l].phase = "inline"
    /\ IF ok THEN inlineResolved(l) ELSE inlineRejected(l)

\* A cleanup that would put the loader back in Web Worker mode.
cleanup_upgraded ==
    /\ loadingPromises' = [k \in Modules \cup {"both"} |-> 0]
    /\ loaded' = [m \in Modules |-> FALSE]
    /\ loads' = live
    /\ started' = Restart(Modules)
    /\ boths' = liveBoths
    /\ useWebWorker' = TRUE

\* cleanup(): the flags and the map of in-flight loads are emptied; the mode
\* flag is left as it is.
cleanup ==
    /\ loadingPromises' = [k \in Modules \cup {"both"} |-> 0]
    /\ loaded' = [m \in Modules |-> FALSE]
    /\ loads' = live
    /\ started' = Restart(Modules)
    /\ boths' = liveBoths
    /\ UNCHANGED useWebWorker

\* terminateWorker().
terminateWorker ==
    IF useWebWorker THEN terminate ELSE UNCHANGED chanVars

\* resetToMainThread().
resetToMainThread ==
    /\ terminateWorker
    /\ useWebWorker' = FALSE
    /\ loaded' = [m \in Modules |-> FALSE]
    /\ loadingPromises' = [k \in Modules \cup {"both"} |-> 0]
    /\ loads' = live
    /\ started' = Restart(Modules)
    /\ boths' = liveBoths

\* reloadWASMModules() of the authentication service: the worker is
\* terminated when the loader is in Web Worker mode, and the loader's flags
\* and map of in-flight loads are emptied.
reloadWASMModules ==
    /\ terminateWorker
    /\ loaded' = [m \in Modules |-> FALSE]
    /\ loadingPromises' = [k \in Modules \cup {"both"} |-> 0]
    /\ loads' = live
    /\ started' = Restart(Modules)
    /\ boths' = liveBoths
    /\ UNCHANGED useWebWorker

\* safeWasmCall (and getWorkerStatus, pingWorker): the operation goes to the
\* worker in Web Worker mode and stays on the main thread otherwise.
invoke(op) ==
    /\ LoaderIdle
    /\ IF useWebWorker
       THEN sendMessage(op.type, op.payload)
       ELSE UNCHANGED chanVars

\* generateKeyPair() (every helper has this shape: createDID() with loadDID
\* and 'createDID'): `await this.loadCrypto()`, then safeWasmCall. With the
\* module loaded the await returns in the same task and the call follows;
\* otherwise the helper is a caller of the load, and the call it makes once
\* the load has resolved is an invoke of its own.
generateKeyPair(op) ==
    IF loaded["crypto"] THEN invoke(op)
    ELSE loadModule("crypto") /\ UNCHANGED chanVars

\* A settled worker request whose continuation in the loader has not run
\* yet: it runs in the microtask checkpoint of the task that settled it,
\* before any other task.
LoaderMicrotask ==
    \E l \in LoadIds : loads[l].phase = "worker" /\ reqs[loads[l].req].pc \in Settled

\* ---------------------------------------------------------------------
\* Tasks of the channel
\* ---------------------------------------------------------------------

\* The worker answers message m and the client's listener handles the answer.
workerRespond(m, ok) ==
    /\ ~LoaderMicrotask
    /\ m \in inbox
    /\ ok \/ m.type \in {"LOAD_CRYPTO", "LOAD_DID"}
    /\ inbox' = inbox \ {m}
    /\ answered' = answered \cup {WorkerReply(m, ok)}
    /\ handleWorkerMessage(WorkerReply(m, ok))
    /\ LoaderIdle
    /\ UNCHANGED <<workerSupported, workerInstance, created, alive, readySent,
                   worker, isReady, initPromise, messageId, inits, nInits, nReq>>

WorkerRespond(m, ok) ==
    /\ UNCHANGED <<errored, fetchVars, call, traffic, stale>>
    /\ workerRespond(m, ok)

\* The payload of module m is fetched n times and written to the Cache
\* Storage c times.
Transfer(m, n, c) ==
    [fetched |-> [traffic.fetched EXCEPT ![m] = @ + n],
     cached |-> [traffic.cached EXCEPT ![m] = @ + c]]

ModuleOf(type) == IF type = "LOAD_CRYPTO" THEN "crypto" ELSE "did"

\* The worker serves a LOAD_ message: WASMWorkerManager.loadWASMModule runs
\* wasm_exec.js and fetches the payload for WebAssembly.instantiateStreaming
\* (or for arrayBuffer() and WebAssembly.instantiate). It writes nothing to
\* the Cache Storage. A load that fails may have failed before its fetch.
WorkerLoads(m, ok, n) ==
    /\ m.type \in {"LOAD_CRYPTO", "LOAD_DID"}
    /\ n = 1 \/ (~ok /\ n = 0)
    /\ traffic.fetched[ModuleOf(m.type)] + n <= MaxTransfers
    /\ workerRespond(m, ok)
    /\ traffic' = Transfer(ModuleOf(m.type), n, 0)
    /\ UNCHANGED <<errored, fetchVars, call, stale>>

\* The listener is handed a RESPONSE it has handled before.
DuplicateResponse(a) ==
    /\ ~LoaderMicrotask
    /\ UNCHANGED <<errored, fetchVars, call, traffic, stale>>
    /\ a \in answered
    /\ handleWorkerMessage(a)
    /\ LoaderIdle
    /\ UNCHANGED <<workerSupported, workerInstance, created, alive, readySent,
                   inbox, answered, worker, isReady, initPromise, messageId,
                   inits, nInits, nReq>>

RequestTimeout(r) ==
    /\ ~LoaderMicrotask
    /\ UNCHANGED <<errored, fetchVars, call, traffic, stale>>
    /\ requestTimeout(r)
    /\ LoaderIdle
    /\ UNCHANGED <<workerSupported, workerInstance, created, alive, readySent,
                   inbox, answered, worker, isReady, initPromise, messageId,
                   inits, nInits, nReq>>

InitTimeout(p) ==
    /\ ~LoaderMicrotask
    /\ UNCHANGED <<errored, fetchVars, call, traffic, stale>>
    /\ initTimeout(p)
    /\ LoaderIdle
    /\ UNCHANGED workerSupported

WorkerReady(w, p) ==
    /\ ~LoaderMicrotask
    /\ UNCHANGED <<errored, fetchVars, call, traffic, stale>>
    /\ workerReady(w, p)
    /\ LoaderIdle
    /\ UNCHANGED workerSupported

WorkerError(w, p) ==
    /\ ~LoaderMicrotask
    /\ UNCHANGED <<errored, fetchVars, call, traffic, stale>>
    /\ workerError(w, p)
    /\ LoaderIdle
    /\ UNCHANGED workerSupported

\* The same event, recorded.
WorkerErrorSeen(w, p) ==
    /\ UNCHANGED <<fetchVars, call, traffic, stale>>
    /\ w \notin errored
    /\ errored' = errored \cup {w}
    /\ workerError(w, p)
    /\ LoaderIdle
    /\ UNCHANGED workerSupported

\* The page calls a method of wasmWorkerClient.
SendMessage(op) ==
    /\ ~LoaderMicrotask
    /\ UNCHANGED <<errored, fetchVars, call, traffic, stale>>
    /\ sendMessage(op.type, op.payload)
    /\ LoaderIdle
    /\ UNCHANGED workerSupported

Terminate ==
    /\ ~LoaderMicrotask
    /\ UNCHANGED <<errored, fetchVars, call, traffic, stale>>
    /\ terminate
    /\ LoaderIdle
    /\ UNCHANGED workerSupported

\* ---------------------------------------------------------------------
\* Tasks of the loader
\* ---------------------------------------------------------------------

LoadWorkerSettled(l) ==
    /\ UNCHANGED <<errored, fetchVars, call, traffic, stale>>
    /\ loadWorkerSettled(l)
    /\ UNCHANGED <<workerSupported, chanVars>>

LoadModule(m) ==
    /\ ~LoaderMicrotask
    /\ UNCHANGED <<errored, fetchVars, call, traffic, stale>>
    /\ loadModule(m)
    /\ UNCHANGED <<workerSupported, chanVars>>

LoadBoth ==
    /\ ~LoaderMicrotask
    /\ UNCHANGED <<errored, fetchVars, call, traffic, stale>>
    /\ loadBoth
    /\ UNCHANGED <<workerSupported, chanVars>>

ProbeDone(l, big) ==
    /\ ~LoaderMicrotask
    /\ UNCHANGED <<errored, fetchVars, call, traffic, stale>>
    /\ big \/ ~loads[l].wws \/ nReq < MaxWorkerLoads
    /\ probeDone(l, big)
    /\ UNCHANGED workerSupported

InlineDone(l, ok) ==
    /\ ~LoaderMicrotask
    /\ UNCHANGED <<errored, fetchVars, call, traffic, stale>>
    /\ inlineDone(l, ok)
    /\ UNCHANGED <<workerSupported, chanVars>>

\* What loadWASMFileMainThread has fetched and written when it ends, as
\* <<fetches, writes>>, the cache being cold: fetchWasmWithProgress fetches
\* the payload and cacheWasm writes it, unless the Cache Storage refuses;
\* when that fetch fails the catch fetches once more, for
\* instantiateStreaming, and writes nothing. A load that fails may have
\* failed before any fetch, when wasm_exec.js did not load.
InlineTransfers(ok) ==
    {<<1, 1>>, <<1, 0>>, <<2, 0>>} \cup (IF ok THEN {} ELSE {<<0, 0>>})

\* loadWASMModuleMainThread of load l settles, its fetches and writes counted.
InlineLoads(l, ok, t) ==
    /\ ~LoaderMicrotask
    /\ t \in InlineTransfers(ok)
    /\ loads[l].phase = "inline"
    /\ traffic.fetched[loads[l].kind] + t[1] <= MaxTransfers
    /\ inlineDone(l, ok)
    /\ traffic' = Transfer(loads[l].kind, t[1], t[2])
    /\ UNCHANGED <<errored, fetchVars, call, stale>>
    /\ UNCHANGED <<workerSupported, chanVars>>

Cleanup ==
    /\ ~LoaderMicrotask
    /\ UNCHANGED <<errored, fetchVars, call, traffic, stale>>
    /\ cleanup
    /\ UNCHANGED <<workerSupported, chanVars>>

TerminateWorker ==
    /\ ~LoaderMicrotask
    /\ UNCHANGED <<errored, fetchVars, call, traffic, stale>>
    /\ terminateWorker
    /\ LoaderIdle
    /\ UNCHANGED workerSupported

ResetToMainThread ==
    /\ ~LoaderMicrotask
    /\ UNCHANGED <<errored, fetchVars, call, traffic, stale>>
    /\ resetToMainThread
    /\ UNCHANGED workerSupported

ReloadWASMModules ==
    /\ ~LoaderMicrotask
    /\ UNCHANGED <<errored, fetchVars, call, traffic, stale>>
    /\ reloadWASMModules
    /\ UNCHANGED workerSupported

\* The operations that reset the loader.
Resets == {"cleanup", "resetToMainThread", "reloadWASMModules"}

\* A reset, the loads it finds in flight noted: none of the three looks at
\* them, and their continuations run when their awaits return.
Reset(op) ==
    /\ ~LoaderMicrotask
    /\ CASE op = "cleanup" -> cleanup /\ UNCHANGED chanVars
         [] op = "resetToMainThread" -> resetToMainThread
         [] op = "reloadWASMModules" -> reloadWASMModules
    /\ stale' = stale \cup Running
    /\ UNCHANGED <<workerSupported, errored, fetchVars, call, traffic>>

\* The continuation of a settled worker load, and the end of a main-thread
\* load, with the loads that are over no longer noted.
WorkerLoadSettles(l) ==
    /\ loadWorkerSettled(l)
    /\ stale' = stale \cap Running'
    /\ UNCHANGED <<workerSupported, chanVars, errored, fetchVars, call, traffic>>

InlineLoadSettles(l, ok) ==
    /\ ~LoaderMicrotask
    /\ inlineDone(l, ok)
    /\ stale' = stale \cap Running'
    /\ UNCHANGED <<workerSupported, chanVars, errored, fetchVars, call, traffic>>

Invoke(op) ==
    /\ ~LoaderMicrotask
    /\ UNCHANGED <<errored, fetchVars, call, traffic, stale>>
    /\ nReq < MaxInvokes
    /\ invoke(op)
    /\ UNCHANGED workerSupported

\* getWorkerStatus() / pingWorker(): wasmWorkerClient.getStatus() or ping()
\* in Web Worker mode, an object built from the loader's fields otherwise.
GetWorkerStatus(op) ==
    /\ ~LoaderMicrotask
    /\ UNCHANGED <<errored, fetchVars, call, traffic, stale>>
    /\ nReq < MaxInvokes
    /\ invoke(op)
    /\ UNCHANGED workerSupported

GenerateKeyPair(op) ==
    /\ ~LoaderMicrotask
    /\ UNCHANGED <<errored, fetchVars, call, traffic, stale>>
    /\ loaded["crypto"] => nReq < MaxInvokes
    /\ generateKeyPair(op)
    /\ UNCHANGED workerSupported

\* ---------------------------------------------------------------------
\* The cache of payloads and the main-thread load
\* ---------------------------------------------------------------------

\* String.prototype.replace('/', '-'): the first occurrence only.
replace(str) ==
    IF \E i \in 1..Len(str) : str[i] = "/"
    THEN LET i == CHOOSE j \in 1..Len(str) :
                     /\ str[j] = "/"
                     /\ \A k \in 1..(j - 1) : str[k] # "/"
         IN [str EXCEPT ![i] = "-"]
    ELSE str

\* A key that would leave the version out.
getCacheKey_unversioned(wasmPath, v, compressed) ==
    <<CACHE_PREFIX, "-">> \o replace(wasmPath) \o <<"-v">>
       \o (IF compressed THEN <<"-compressed">> ELSE << >>)

\* getCacheKey(wasmPath, compressed) under WASM_VERSION v.
getCacheKey(wasmPath, v, compressed) ==
    <<CACHE_PREFIX, "-">> \o replace(wasmPath) \o <<"-v">> \o v
       \o (IF compressed THEN <<"-compressed">> ELSE << >>)

\* Date.now().toString(): the decimal digits of n.
RECURSIVE toString(_)
toString(n) == IF n < 10 THEN <<n>> ELSE Append(toString(n \div 10), n % 10)

\* parseInt(str, 10) of a string of digits.
RECURSIVE parseInt(_)
parseInt(str) ==
    IF Len(str) = 0 THEN 0
    ELSE 10 * parseInt(SubSeq(str, 1, Len(str) - 1)) + str[Len(str)]

\* The body the server sends for a path under a version, as bytes.
Content(wasmPath, v) == <<wasmPath[2], v[1]>>

\* A test that would serve an entry of any age.
isFresh_always(entry) == TRUE

\* The age test of getCachedWasm on the x-cache-time header of an entry.
isFresh(entry) == now - parseInt(entry.time) < CACHE_EXPIRY

\* A test that would never find the storage missing.
noCacheStorage_ignored == FALSE

\* typeof window === 'undefined' || !('caches' in window).
noCacheStorage == ~hasCaches

\* A percent value is a fraction <<numerator, denominator>>; the arithmetic
\* of the callbacks is exact on it, and rounding to a double keeps order.
Pct(n) == <<n, 1>>

\* base + p * scale.
Scaled(base, scale, p) ==
    <<base * p[2] * scale[2] + p[1] * scale[1], p[2] * scale[2]>>

\* The callback loadWASMFileMainThread hands to fetchWasmWithProgress:
\* 20 + progress * 0.5, and 30 + progress * 0.4 without instantiateStreaming.
fetchProgress(p) ==
    IF hasStreaming THEN Scaled(20, <<1, 2>>, p) ELSE Scaled(30, <<2, 5>>, p)

\* progressCallback?.(percent, stage), for the values in call order.
Report(run, values) == [run EXCEPT !.percents = @ \o values]

CompressedKey(run) == getCacheKey(run.path, version, TRUE)
NormalKey(run) == getCacheKey(run.path, version, FALSE)

\* A lookup that would try the compressed key only.
Matched_compressedOnly(run) ==
    IF CompressedKey(run) \in DOMAIN store THEN {CompressedKey(run)} ELSE {}

\* cache.match(compressedKey), then cache.match(normalKey).
Matched(run) ==
    IF CompressedKey(run) \in DOMAIN store THEN {CompressedKey(run)}
    ELSE IF NormalKey(run) \in DOMAIN store THEN {NormalKey(run)}
    ELSE {}

\* loadWASMFileMainThread up to the call of fetchWasmWithProgress.
loadWASMFileMainThread(run) ==
    [Report(run, <<Pct(10), Pct(15), Pct(20)>>
                    \o (IF hasStreaming THEN << >> ELSE <<Pct(30)>>))
       EXCEPT !.pc = "lookup"]

\* loadWASMModuleMainThread up to its first await.
loadWASMModuleMainThread(run) ==
    IF Go THEN loadWASMFileMainThread(Report(run, <<Pct(5)>>))
    ELSE [Report(run, <<Pct(5)>>) EXCEPT !.pc = "script"]

\* fetchWasmWithProgress after a miss: the download starts.
startDownload(run) ==
    [Report(run, <<fetchProgress(Pct(0))>>) EXCEPT !.pc = "response"]

\* fetchWasmWithProgress has returned the payload to loadWasm.
returned(run) == [Report(run, <<Pct(70)>>) EXCEPT !.pc = "instantiate"]

\* A fetchWasmWithProgress that would cache what it has received when the
\* fetch fails.
fetchFailed_cached(run) == [run EXCEPT !.pc = "put"]

\* fetchWasmWithProgress has thrown: the catch of loadWasm falls back to
\* instantiateStreaming; without it the load is rejected.
fetchFailed(run) ==
    IF hasStreaming THEN [Report(run, <<Pct(30)>>) EXCEPT !.pc = "streaming"]
    ELSE [run EXCEPT !.pc = "failed"]

\* A cacheWasm that would let the error of cache.put escape.
afterPutError_thrown(run) == fetchFailed(run)

\* cacheWasm's catch: the error is logged and the payload is returned.
afterPutError(run) == returned([run EXCEPT !.warned = TRUE])

\* getCachedWasm's catch: the error is logged and the lookup is a miss.
afterLookupError(run) == startDownload([run EXCEPT !.warned = TRUE])

RECURSIVE TotalSize(_)
TotalSize(keys) ==
    IF keys = {} THEN 0
    ELSE LET k == CHOOSE x \in keys : TRUE
         IN Len(store[k].data) + TotalSize(keys \ {k})

\* A step of one main-thread load that leaves the rest alone.
FetchStep(f, run) ==
    /\ fetches' = [fetches EXCEPT ![f] = run]
    /\ info' = NoInfo
    /\ UNCHANGED <<chanVars, loaderVars, errored, call, traffic, stale, hasCaches, hasStreaming,
                   version, now, nSessions>>

\* _loadCryptoInternal / _loadDIDInternal is called with a progress callback.
Begin(f, wasmPath) ==
    /\ fetches[f].pc \in {"idle", "done", "failed"}
    /\ nFetches < MaxFetchCalls
    /\ nFetches' = nFetches + 1
    /\ FetchStep(f, [NoFetch EXCEPT !.pc = "probe", !.path = wasmPath,
                                     !.percents = <<Pct(0)>>])
    /\ UNCHANGED <<Go, store, written>>

\* shouldUseMainThreadForFile has answered and the mode is decided.
ProbeEnd(f, useWorker) ==
    /\ fetches[f].pc = "probe"
    /\ FetchStep(f, IF useWorker
                    THEN [Report(fetches[f], <<Pct(10)>>) EXCEPT !.pc = "worker"]
                    ELSE loadWASMModuleMainThread(Report(fetches[f], <<Pct(10)>>)))
    /\ UNCHANGED <<Go, store, written, nFetches>>

\* wasmWorkerClient.loadCrypto() has settled.
WorkerEnd(f, ok) ==
    /\ fetches[f].pc = "worker"
    /\ FetchStep(f, IF ok
                    THEN [Report(fetches[f], <<Pct(100)>>) EXCEPT !.pc = "done"]
                    ELSE loadWASMModuleMainThread(Report(fetches[f], <<Pct(20)>>)))
    /\ UNCHANGED <<Go, store, written, nFetches>>

\* onload / onerror of the wasm_exec.js script element.
ScriptLoaded(f, ok) ==
    /\ fetches[f].pc = "script"
    /\ Go' = (Go \/ ok)
    /\ FetchStep(f, IF ok THEN loadWASMFileMainThread(fetches[f])
                    ELSE [fetches[f] EXCEPT !.pc = "failed"])
    /\ UNCHANGED <<store, written, nFetches>>

\* getCachedWasm up to the age test; `err` is an error of the storage.
Lookup(f, err) ==
    /\ fetches[f].pc = "lookup"
    /\ err => ~noCacheStorage
    /\ LET run == fetches[f] IN
       FetchStep(f,
          IF noCacheStorage THEN startDownload(run)
          ELSE IF err THEN afterLookupError(run)
          ELSE IF Matched(run) = {} THEN startDownload(run)
          ELSE LET entry == store[CHOOSE k \in Matched(run) : TRUE] IN
               IF isFresh(entry)
               THEN returned(Report([run EXCEPT !.result = entry.data,
                                                !.hit = TRUE],
                                    <<fetchProgress(Pct(100))>>))
               ELSE [run EXCEPT !.pc = "expire"])
    /\ UNCHANGED <<Go, store, written, nFetches>>

\* The expired entry is deleted under both keys; the lookup is a miss.
Expire(f, err) ==
    /\ fetches[f].pc = "expire"
    /\ LET run == fetches[f]
           gone == {CompressedKey(run), NormalKey(run)}
       IN
       /\ FetchStep(f, IF err THEN afterLookupError(run) ELSE startDownload(run))
       /\ IF err THEN UNCHANGED <<store, written>>
          ELSE /\ store' = [k \in DOMAIN store \ gone |-> store[k]]
               /\ written' = [k \in DOMAIN written \ {<<run.path, version>>} |->
                                 written[k]]
    /\ UNCHANGED <<Go, nFetches>>

\* fetch(versionedUrl) has settled; `total` is the declared content-length
\* (0 when there is none).
Response(f, ok, total) ==
    /\ fetches[f].pc = "response"
    /\ FetchStep(f, IF ok THEN [fetches[f] EXCEPT !.pc = "body", !.total = total]
                    ELSE fetchFailed(fetches[f]))
    /\ UNCHANGED <<Go, store, written, nFetches>>

\* reader.read() returns a chunk of n bytes.
Chunk(f, n) ==
    /\ fetches[f].pc = "body"
    /\ fetches[f].received + n <= Len(Content(fetches[f].path, version))
    /\ LET run == [fetches[f] EXCEPT !.received = @ + n] IN
       FetchStep(f, IF run.total > 0
                    THEN Report(run, <<fetchProgress(<<run.received * 100,
                                                       run.total>>)>>)
                    ELSE run)
    /\ UNCHANGED <<Go, store, written, nFetches>>

\* reader.read() rejects.
BodyError(f) ==
    /\ fetches[f].pc = "body"
    /\ FetchStep(f, fetchFailed(fetches[f]))
    /\ UNCHANGED <<Go, store, written, nFetches>>

\* reader.read() returns done: the chunks are combined and cacheWasm is
\* called.
End(f) ==
    /\ fetches[f].pc = "body"
    /\ fetches[f].received = Len(Content(fetches[f].path, version))
    /\ LET run == Report([fetches[f] EXCEPT
                             !.result = Content(fetches[f].path, version)],
                         <<fetchProgress(Pct(100))>>)
       IN FetchStep(f, IF noCacheStorage THEN returned(run)
                       ELSE [run EXCEPT !.pc = "put"])
    /\ UNCHANGED <<Go, store, written, nFetches>>

\* cacheWasm after caches.open: cache.put under the uncompressed key.
Put(f, err) ==
    /\ fetches[f].pc = "put"
    /\ LET run == fetches[f]
           key == getCacheKey(run.path, version, FALSE)
       IN
       /\ FetchStep(f, IF err THEN afterPutError(run) ELSE returned(run))
       /\ IF err THEN UNCHANGED <<store, written>>
          ELSE /\ store' = [k \in DOMAIN store \cup {key} |->
                               IF k = key THEN [data |-> run.result,
                                                time |-> toString(now)]
                               ELSE store[k]]
               /\ written' = [k \in DOMAIN written \cup {<<run.path, version>>} |->
                                 IF k = <<run.path, version>>
                                 THEN [data |-> run.result, at |-> now]
                                 ELSE written[k]]
    /\ UNCHANGED <<Go, nFetches>>

\* WebAssembly.instantiate / instantiateStreaming has settled, and go.run
\* is called with the instance. An error of WebAssembly.instantiate is caught
\* by the same catch as an error of fetchWasmWithProgress.
Instantiate(f, outcome) ==
    /\ fetches[f].pc \in {"instantiate", "streaming"}
    /\ FetchStep(f,
          CASE outcome = "ok" ->
                 [Report(fetches[f], <<Pct(80), Pct(90)>>) EXCEPT !.pc = "ready"]
            [] outcome = "goError" ->
                 [Report(fetches[f], <<Pct(80)>>) EXCEPT !.pc = "failed"]
            [] OTHER ->
                 IF fetches[f].pc = "instantiate" THEN fetchFailed(fetches[f])
                 ELSE [fetches[f] EXCEPT !.pc = "failed"])
    /\ UNCHANGED <<Go, store, written, nFetches>>

\* checkReady finds the ready flag, or the 45 s safety timer fires first.
Ready(f, ok) ==
    /\ fetches[f].pc = "ready"
    /\ FetchStep(f, IF ok
                    THEN [Report(fetches[f], <<Pct(100)>>) EXCEPT !.pc = "done"]
                    ELSE [fetches[f] EXCEPT !.pc = "failed"])
    /\ UNCHANGED <<Go, store, written, nFetches>>

\* clearCache().
ClearCache(err) ==
    /\ err => ~noCacheStorage
    /\ IF noCacheStorage \/ err THEN UNCHANGED <<store, written>>
       ELSE store' = << >> /\ written' = << >>
    /\ info' = NoInfo
    /\ UNCHANGED <<chanVars, loaderVars, errored, call, traffic, stale, hasCaches, hasStreaming, Go,
                   version, now, fetches, nFetches, nSessions>>

\* The 'activate' listener of the service worker sw.js, which the page
\* registers: every cache of the origin whose name is neither CACHE_NAME nor
\* WASM_CACHE_NAME is deleted. A browser that runs service workers has the
\* Cache Storage.
Activate ==
    /\ ~noCacheStorage
    /\ IF CACHE_PREFIX \notin {CACHE_NAME, WASM_CACHE_NAME}
       THEN store' = << >> /\ written' = << >>
       ELSE UNCHANGED <<store, written>>
    /\ info' = NoInfo
    /\ UNCHANGED <<chanVars, loaderVars, errored, call, traffic, stale, hasCaches,
                   hasStreaming, Go, version, now, fetches, nFetches, nSessions>>

\* getCacheInfo().
GetCacheInfo(err) ==
    /\ err => ~noCacheStorage
    /\ info' = IF noCacheStorage \/ err THEN [size |-> 0, entries |-> {}]
               ELSE [size |-> TotalSize(DOMAIN store), entries |-> DOMAIN store]
    /\ UNCHANGED <<chanVars, loaderVars, errored, call, traffic, stale, hasCaches, hasStreaming, Go,
                   version, now, store, written, fetches, nFetches, nSessions>>

\* Half a retention window passes.
Tick ==
    /\ now < MaxTicks * (CACHE_EXPIRY \div 2)
    /\ now' = now + CACHE_EXPIRY \div 2
    /\ info' = NoInfo
    /\ UNCHANGED <<chanVars, loaderVars, errored, call, traffic, stale, hasCaches, hasStreaming, Go,
                   version, store, written, fetches, nFetches, nSessions>>

\* The page is opened again, by a browser and with a build of the loader
\* that may differ; the Cache Storage is what persists.
Reopen(v, c, st) ==
    /\ nSessions < MaxSessions
    /\ nSessions' = nSessions + 1
    /\ version' = v
    /\ hasCaches' = c
    /\ hasStreaming' = st
    /\ Go' = FALSE
    /\ fetches' = [f \in FetchIds |-> NoFetch]
    /\ info' = NoInfo
    /\ UNCHANGED <<chanVars, loaderVars, errored, call, traffic, stale, now, store, written, nFetches>>

\* The steps of the main-thread loads.
LoadSteps ==
    \/ \E f \in FetchIds : \E wasmPath \in Paths : Begin(f, wasmPath)
    \/ \E f \in FetchIds : \E useWorker \in BOOLEAN : ProbeEnd(f, useWorker)
    \/ \E f \in FetchIds : \E ok \in BOOLEAN : WorkerEnd(f, ok)
    \/ \E f \in FetchIds : \E ok \in BOOLEAN : ScriptLoaded(f, ok)
    \/ \E f \in FetchIds : \E err \in BOOLEAN : Lookup(f, err)
    \/ \E f \in FetchIds : \E err \in BOOLEAN : Expire(f, err)
    \/ \E f \in FetchIds : \E ok \in BOOLEAN : \E total \in 0..DeclaredMax :
          Response(f, ok, total)
    \/ \E f \in FetchIds : \E n \in 1..2 : Chunk(f, n)
    \/ \E f \in FetchIds : BodyError(f)
    \/ \E f \in FetchIds : End(f)
    \/ \E f \in FetchIds : \E err \in BOOLEAN : Put(f, err)
    \/ \E f \in FetchIds : \E outcome \in InstantiateOutcomes :
          Instantiate(f, outcome)
    \/ \E f \in FetchIds : \E ok \in BOOLEAN : Ready(f, ok)

FetchNext ==
    \/ LoadSteps
    \/ \E err \in BOOLEAN : ClearCache(err)
    \/ \E err \in BOOLEAN : GetCacheInfo(err)
    \/ Tick
    \/ \E v \in Versions : \E c \in BOOLEAN : \E st \in BOOLEAN : Reopen(v, c, st)

\* ---------------------------------------------------------------------
\* Calls of the functions of the loaded modules
\* ---------------------------------------------------------------------

\* The helpers: name of the function, module that owns it. signMessage and
\* createMembershipAndBalanceProof test the function themselves before
\* safeWasmCallWithParams; the others go straight to safeWasmCall.
Helpers == {"generateKeyPair", "signMessage", "verifySignature", "createDID",
            "createMembershipAndBalanceProof"}
Checked == {"signMessage", "createMembershipAndBalanceProof"}

\* What a function of the module may return: the text of a JSON object, the
\* text of a JSON string, and a text that is no JSON.
Texts == {"{}", "\"s\"", "oops"}

ObjectValue(t) == [type |-> "object", of |-> t]
StringValue(t) == [type |-> "string", of |-> t]

\* JSON.parse on these texts (any other text is a SyntaxError).
JSONparse(t) ==
    CASE t = "{}" -> [ok |-> TRUE, value |-> ObjectValue("{}")]
      [] t = "\"s\"" -> [ok |-> TRUE, value |-> StringValue("s")]
      [] OTHER -> [ok |-> FALSE, value |-> NoValue]

\* JSON.stringify of an object value.
JSONstringify(v) == v.of

\* The end of safeWasmCall: `return JSON.parse(result)` inside the try, whose
\* catch rethrows as `${operation} failed: ...`.
parseResult(c, result) ==
    IF JSONparse(result).ok
    THEN [c EXCEPT !.pc = "done", !.status = "returned",
                   !.value = JSONparse(result).value]
    ELSE [c EXCEPT !.pc = "done", !.status = "thrown", !.cause = "SyntaxError"]

Thrown(c, cause) == [c EXCEPT !.pc = "done", !.status = "thrown", !.cause = cause]

\* executeWASMFunction in the worker, on a function that exists: the text is
\* parsed, and kept as a string when it cannot be.
parsedResult(text) ==
    IF JSONparse(text).ok THEN JSONparse(text).value ELSE StringValue(text)

\* safeWasmCall after wasmWorkerClient.executeWASMFunction has resolved with
\* workerResult.
fromWorker(c, workerResult) ==
    parseResult(c, IF workerResult.type = "string" THEN workerResult.of
                   ELSE JSONstringify(workerResult))

\* A helper is called on its loaded module: `present` is whether the module
\* has installed a function of that name, `text` what the function returns.
\* In Web Worker mode the call goes to the worker; on the main thread
\* window[fn]() is called, which is a TypeError when there is no function.
Call(fn, present, text) ==
    /\ call.pc \in {"none", "done"}
    /\ LET c == [NoCall EXCEPT !.fn = fn, !.present = present, !.text = text] IN
       call' = IF fn \in Checked /\ ~useWebWorker /\ ~present
               THEN Thrown(c, "check")
               ELSE IF useWebWorker THEN [c EXCEPT !.pc = "worker"]
               ELSE IF ~present THEN Thrown(c, "TypeError")
               ELSE parseResult(c, text)
    /\ UNCHANGED <<chanVars, loaderVars, errored, fetchVars, traffic, stale>>

\* The worker runs executeWASMFunction and its RESPONSE settles the call.
WorkerExecute ==
    /\ call.pc = "worker"
    /\ call' = IF ~call.present THEN Thrown(call, "check")
               ELSE fromWorker(call, parsedResult(call.text))
    /\ UNCHANGED <<chanVars, loaderVars, errored, fetchVars, traffic, stale>>

\* The request is rejected by the channel (timeout, failed initialization).
ChannelFailure ==
    /\ call.pc = "worker"
    /\ call' = Thrown(call, "channel")
    /\ UNCHANGED <<chanVars, loaderVars, errored, fetchVars, traffic, stale>>

InvokeNext ==
    \/ \E fn \in Helpers : \E present \in BOOLEAN : \E text \in Texts :
          Call(fn, present, text)
    \/ WorkerExecute
    \/ ChannelFailure

NoTraffic ==
    [fetched |-> [m \in Modules |-> 0], cached |-> [m \in Modules |-> 0]]

\* The state after construction, but for the loader's flags.
InitOther ==
    /\ workerSupported \in BOOLEAN
    /\ workerInstance = 0
    /\ created = 0
    /\ alive = {}
    /\ readySent = {}
    /\ inbox = {}
    /\ answered = {}
    /\ worker = 0
    /\ isReady = FALSE
    /\ initPromise = 0
    /\ messageId = 0
    /\ pendingPromises = << >>
    /\ inits = [p \in InitIds |-> NoInit]
    /\ nInits = 0
    /\ reqs = [r \in ReqIds |-> NoReq]
    /\ nReq = 0
    /\ loadingPromises = [k \in Modules \cup {"both"} |-> 0]
    /\ loads = [l \in LoadIds |-> NoLoad]
    /\ boths = [b \in BothIds |-> NoBoth]
    /\ started = [m \in Modules |-> 0]
    /\ errored = {}
    /\ hasCaches = TRUE
    /\ hasStreaming = TRUE
    /\ Go = FALSE
    /\ version = <<"1.0.1">>
    /\ now = 0
    /\ store = << >>
    /\ written = << >>
    /\ fetches = [f \in FetchIds |-> NoFetch]
    /\ nFetches = 0
    /\ nSessions = 1
    /\ info = NoInfo
    /\ call = NoCall
    /\ traffic = NoTraffic
    /\ stale = {}

Init ==
    /\ InitOther
    /\ loaded = [m \in Modules |-> FALSE]
    /\ useWebWorker = TRUE

\* The loader once both modules have been loaded, in either mode, and with
\* no worker (it has been terminated since, or the loads ran inline).
InvokeInit ==
    /\ InitOther
    /\ loaded = [m \in Modules |-> TRUE]
    /\ useWebWorker \in BOOLEAN

ChannelTasks ==
    \/ \E m \in inbox : \E ok \in BOOLEAN : WorkerRespond(m, ok)
    \/ \E a \in answered : DuplicateResponse(a)
    \/ \E r \in ReqIds : RequestTimeout(r)
    \/ \E p \in InitIds : InitTimeout(p)
    \/ \E w \in alive : \E p \in InitIds : WorkerReady(w, p)
    \/ \E w \in alive : \E p \in InitIds : WorkerError(w, p)

ChannelNext ==
    \/ \E op \in ClientOps : SendMessage(op)
    \/ Terminate
    \/ ChannelTasks

\* The channel alone: the page calls the methods of wasmWorkerClient.
ChannelSpec == Init /\ [][ChannelNext]_vars

\* The channel asked to load the modules: the page, or the loader, calls
\* loadCrypto() and loadDID() of wasmWorkerClient.
WorkerLoadNext ==
    \/ \E op \in LoadOps : SendMessage(op)
    \/ Terminate
    \/ ChannelTasks

WorkerLoadSpec == Init /\ [][WorkerLoadNext]_vars

\* The helpers called on loaded modules.
InvokeSpec == InvokeInit /\ [][InvokeNext]_vars

\* The main-thread loads and the cache, over sessions of the page.
FetchSpec == Init /\ [][FetchNext]_vars

\* The main-thread loads and the cache of a page that registers the service
\* worker and never calls clearCache().
CacheLifeNext ==
    \/ LoadSteps
    \/ Activate
    \/ Tick

CacheLifeSpec == Init /\ [][CacheLifeNext]_vars

LoaderCalls ==
    \/ \E m \in Modules : LoadModule(m)
    \/ LoadBoth
    \/ Cleanup
    \/ TerminateWorker
    \/ ResetToMainThread
    \/ ReloadWASMModules
    \/ \E op \in LoaderOps : Invoke(op)
    \/ \E op \in LoaderOps : GenerateKeyPair(op)

LoaderTasks ==
    \/ \E l \in LoadIds : \E big \in ProbeAnswers : ProbeDone(l, big)
    \/ \E l \in LoadIds : \E ok \in BOOLEAN : InlineDone(l, ok)

Next ==
    \/ \E l \in LoadIds : LoadWorkerSettled(l)
    \/ LoaderCalls
    \/ LoaderTasks
    \/ ChannelTasks

\* The channel with the 'error' events of the workers recorded.
ChannelErrorNext ==
    \/ \E op \in ClientOps : SendMessage(op)
    \/ Terminate
    \/ \E m \in inbox : \E ok \in BOOLEAN : WorkerRespond(m, ok)
    \/ \E r \in ReqIds : RequestTimeout(r)
    \/ \E p \in InitIds : InitTimeout(p)
    \/ \E w \in alive : \E p \in InitIds : WorkerReady(w, p)
    \/ \E w \in alive : \E p \in InitIds : WorkerErrorSeen(w, p)

ChannelErrorSpec == Init /\ [][ChannelErrorNext]_vars

\* The loader over the channel: the page calls the methods of wasmLoader,
\* which is the only user of the channel.
Spec == Init /\ [][Next]_vars

\* The page calls loadCrypto() with a Cache Storage that holds no payload
\* yet; the fetches and the cache writes of the module are counted.
ColdLoadNext ==
    \/ LoadModule("crypto")
    \/ \E l \in LoadIds : \E big \in ProbeAnswers : ProbeDone(l, big)
    \/ \E l \in LoadIds : LoadWorkerSettled(l)
    \/ \E l \in LoadIds : \E ok \in BOOLEAN : \E t \in InlineTransfers(ok) :
          InlineLoads(l, ok, t)
    \/ \E m \in inbox : \E ok \in BOOLEAN : \E n \in 0..1 : WorkerLoads(m, ok, n)
    \/ \E r \in ReqIds : RequestTimeout(r)
    \/ \E p \in InitIds : InitTimeout(p)
    \/ \E w \in alive : \E p \in InitIds : WorkerReady(w, p)
    \/ \E w \in alive : \E p \in InitIds : WorkerError(w, p)

ColdLoadSpec == Init /\ [][ColdLoadNext]_vars

\* The loader asked for its status between loads.
StatusNext ==
    \/ \E op \in StatusOps : GetWorkerStatus(op)
    \/ \E m \in Modules : LoadModule(m)
    \/ \E l \in LoadIds : \E big \in ProbeAnswers : ProbeDone(l, big)
    \/ \E l \in LoadIds : LoadWorkerSettled(l)
    \/ \E l \in LoadIds : \E ok \in BOOLEAN : InlineDone(l, ok)
    \/ TerminateWorker
    \/ ChannelTasks

StatusSpec == Init /\ [][StatusNext]_vars

\* The loader reset while loads are in flight.
ResetNext ==
    \/ \E m \in Modules : LoadModule(m)
    \/ \E op \in Resets : Reset(op)
    \/ \E l \in LoadIds : \E big \in ProbeAnswers : ProbeDone(l, big)
    \/ \E l \in LoadIds : WorkerLoadSettles(l)
    \/ \E l \in LoadIds : \E ok \in BOOLEAN : InlineLoadSettles(l, ok)
    \/ ChannelTasks

ResetSpec == Init /\ [][ResetNext]_vars

\* The loader with timers that fire: the timers of the channel, the 60 s
\* timer of loadWASMModuleMainThread, which rejects a main-thread load, and
\* the continuation of a settled worker request. The HEAD probe of
\* shouldUseMainThreadForFile has no timer.
LoaderFairSpec ==
    /\ Spec
    /\ \A r \in ReqIds : WF_vars(RequestTimeout(r))
    /\ \A p \in InitIds : WF_vars(InitTimeout(p))
    /\ \A l \in LoadIds : WF_vars(LoadWorkerSettled(l))
    /\ \A l \in LoadIds : WF_vars(InlineDone(l, FALSE))

\* The channel with timers that fire: an armed setTimeout callback is run by
\* the event loop unless it is cleared first.
ChannelFairSpec ==
    /\ ChannelSpec
    /\ \A r \in ReqIds : WF_vars(RequestTimeout(r))
    /\ \A p \in InitIds : WF_vars(InitTimeout(p))

\* ---------------------------------------------------------------------
\* Properties of the channel
\* ---------------------------------------------------------------------

\* The calls of sendMessage whose promise is not settled yet.
Unsettled(r) == reqs[r].pc \in {"init", "pending"}

\* C5: every request sent through sendMessage is eventually resolved or
\* rejected, when armed timers fire.
C5_EveryRequestSettles ==
    \A r \in ReqIds : Unsettled(r) ~> (reqs[r].pc \in Settled)

\* C6: terminate() on a channel with outstanding requests rejects each of
\* them, destroys the worker and leaves the channel uninitialized.
C6_TerminateRejectsPending ==
    [][(worker # 0 /\ Terminate) =>
          /\ \A r \in ReqIds : reqs[r].pc = "pending" => reqs'[r].pc = "rejected"
          /\ alive' = {}
          /\ worker' = 0 /\ ~isReady' /\ initPromise' = 0
          /\ pendingPromises' = << >>]_vars

\* What the worker answers to the request of a call.
Answer(req, ok) ==
    WorkerReply([w |-> 0, id |-> req.id, type |-> req.type, payload |-> req.payload],
                ok)

\* The results that only a RESPONSE message carries.
ResponseResults ==
    {"loaded", "load_failed", "generateKeyPair", "function_not_available",
     "status", "pong", "unknown_type"}

\* C7: a call settled by a RESPONSE is settled with the answer to its own
\* request, whatever the order of the responses.
C7_RequestCorrelation ==
    \A r \in ReqIds :
       reqs[r].result \in ResponseResults =>
          \E ok \in BOOLEAN :
             /\ reqs[r].result = Answer(reqs[r], ok).result
             /\ reqs[r].pc = IF Answer(reqs[r], ok).success THEN "resolved"
                             ELSE "rejected"

\* Two requests of different content were outstanding together and the
\* later one has been answered first.
C7_Witness ==
    \E r1, r2 \in ReqIds :
       /\ reqs[r1].pc = "pending" /\ reqs[r1].id \in DOMAIN pendingPromises
       /\ reqs[r2].result \in ResponseResults
       /\ reqs[r2].id > reqs[r1].id
       /\ <<reqs[r1].type, reqs[r1].payload>> # <<reqs[r2].type, reqs[r2].payload>>

\* C8: when the 60 s timer of a request that has had no response fires, the
\* request is rejected with the timeout error and its entry is removed; a
\* response with that id that arrives later changes nothing.
C8_TimeoutCorrectness ==
    [][/\ \A r \in ReqIds :
             (reqs[r].pc = "pending" /\ RequestTimeout(r)) =>
                /\ reqs'[r].pc = "rejected"
                /\ reqs'[r].result = "timeout"
                /\ reqs[r].id \notin DOMAIN pendingPromises'
       /\ \A m \in inbox : \A ok \in BOOLEAN :
             (WorkerRespond(m, ok) /\ \E r \in ReqIds : /\ reqs[r].id = m.id
                                                        /\ reqs[r].result = "timeout")
                => UNCHANGED <<reqs, pendingPromises, isReady, initPromise, worker>>
      ]_vars

\* C9: the continuation of a request is called at most once, and once it has
\* been called neither the timer nor the entry of the request is left.
C9_SettledAtMostOnce ==
    \A r \in ReqIds :
       /\ reqs[r].settles <= 1
       /\ reqs[r].pc \in Settled =>
             /\ reqs[r].settles = 1
             /\ ~reqs[r].timer
             /\ reqs[r].id \notin DOMAIN pendingPromises

\* A request rejected by its timer whose response has arrived since.
C9_Witness ==
    \E r \in ReqIds :
       /\ reqs[r].pc = "rejected" /\ reqs[r].result = "timeout"
       /\ reqs[r].settles = 1
       /\ \E a \in answered : a.id = reqs[r].id

\* The calls made in a step.
Issued(r) == reqs[r].pc = "none" /\ reqs'[r].pc # "none"

C11_InitializationRetryBound ==
    [][\A p \in InitIds :
          /\ inits'[p].retry <= maxRetries
          /\ (inits[p].state = "pending" /\ InitTimeout(p)) =>
                IF inits[p].retry < maxRetries
                THEN /\ inits'[p].retry = inits[p].retry + 1
                     /\ inits[p].w \notin alive'
                     /\ created' <= created + 1
                     /\ inits'[p].state = IF workerSupported THEN "pending"
                                          ELSE "rejected"
                ELSE /\ inits'[p].state = "rejected"
                     /\ created' = created
                     /\ Waiters(p) # {}
                     /\ \A r \in Waiters(p) :
                           /\ reqs'[r].pc = "rejected"
                           /\ reqs'[r].result = "init_timeout"
                     /\ initPromise' = 0
                     /\ ~isReady'
      ]_vars

\* An initialization has failed after its third attempt timed out, its
\* caller has been rejected, and a later call has started a new one.
C11_Witness ==
    \E p \in InitIds :
       /\ inits[p].state = "rejected"
       /\ inits[p].retry = maxRetries
       /\ created >= maxRetries + 1
       /\ \E r \in ReqIds : reqs[r].init = p /\ reqs[r].result = "init_timeout"
       /\ nInits > p
       /\ initPromise = nInits

\* C12: the 'error' event of the worker rejects the initialization in
\* flight and every request pending at that moment, and starts no retry: no
\* worker is constructed and the timer of the attempt is no longer armed.
C12_ChannelErrorRejectsAll ==
    [][\A w \in alive : \A p \in InitIds :
          WorkerErrorSeen(w, p) =>
             /\ inits[p].state = "pending" => inits'[p].state = "rejected"
             /\ \A r \in ReqIds :
                   reqs[r].pc \in {"init", "pending"} /\ reqs[r].init = p
                      => reqs'[r].pc = "rejected"
             /\ created' = created
             /\ ~inits'[p].timer
      ]_vars

\* ---------------------------------------------------------------------
\* Properties of the loader
\* ---------------------------------------------------------------------

\* The loads of module m in flight among the loads ls.
RunningOf(ls, m) ==
    {l \in LoadIds : ls[l].kind = m /\ ls[l].phase \in {"probe", "worker", "inline"}}

\* C1: the calls of loadCrypto() (of loadDID()) made for a module that is
\* not loaded, with no failure (of a worker attempt or of a load) and no
\* reset in between, start one internal load, the one of the in-flight
\* entry, and every call is a caller of it, so settles as it does.
C1_AtMostOneLoad ==
    \A m \in Modules :
       /\ started[m] <= 1
       /\ started[m] = 1 =>
             /\ loadingPromises[m] \in RunningOf(loads, m)
             /\ loads[loadingPromises[m]].parent = 0
             /\ loads[loadingPromises[m]].callers >= 1
       /\ \A l \in LoadIds : loads[l].callers >= 2 => loads[l].parent = 0

\* A load that two calls shared has settled.
C1_Witness ==
    \E l \in LoadIds :
       /\ loads[l].phase \in {"resolved", "rejected"}
       /\ loads[l].callers >= 2

\* The in-flight loads the map loadingPromises knows: the one under the
\* module's key and those of the _loadBothInternal under the key `both`.
Registered(m) ==
    {l \in RunningOf(loads, m) :
        \/ loadingPromises[m] = l
        \/ loads[l].parent # 0 /\ loadingPromises["both"] = loads[l].parent}

\* C2: while the map holds an in-flight load of a module, no call starts
\* another load of that module.
C2_NoSecondInstantiation ==
    [][\A m \in Modules :
          Registered(m) # {} =>
             Cardinality(RunningOf(loads', m)) <= Cardinality(RunningOf(loads, m))
      ]_vars

\* C3: a load tries the main thread at most once, and a load whose worker
\* attempt failed has made exactly that one try, which settles it.
C3_FallbackIdempotence ==
    \A l \in LoadIds :
       /\ loads[l].inlineTries <= 1
       /\ loads[l].workerFailed =>
             /\ loads[l].inlineTries = 1
             /\ loads[l].phase \in {"inline", "resolved", "rejected"}
       /\ loads[l].phase = "rejected" => loads[l].inlineTries = 1

\* A load whose worker attempt failed and whose inline retry failed too
\* has been rejected.
C3_Witness ==
    \E l \in LoadIds :
       /\ loads[l].phase = "rejected"
       /\ loads[l].workerFailed
       /\ loads[l].inlineTries = 1

\* C4: once useWebWorker is false it stays false.
C4_PermanentDowngrade ==
    [][useWebWorker = FALSE => useWebWorker' = FALSE]_vars

\* A load started after the downgrade, in an environment that has workers,
\* is about to go to the main thread.
C4_Witness ==
    /\ ~useWebWorker
    /\ workerSupported
    /\ \E l \in LoadIds : loads[l].phase = "probe" /\ ~loads[l].wws

\* C13: every load in flight, and every loadBoth in flight, is eventually
\* resolved or rejected, when armed timers fire.
C13_EveryLoadSettles ==
    /\ \A l \in LoadIds :
          (l \in Running) ~> (loads[l].phase \in {"resolved", "rejected"})
    /\ \A b \in BothIds :
          (boths[b].state = "running") ~> (boths[b].state \in {"resolved", "rejected"})

\* The payload cacheWasm stored for the path of run f under the running
\* version, if it is still in the cache.
Cached(f) == <<fetches[f].path, version>>

\* C14: cache round trip. When cacheWasm has stored a payload for a path
\* under the running version, no clearCache has run since and the retention
\* window has not passed, a getCachedWasm for that path (with the storage
\* available and answering without an error) is a hit and returns exactly
\* the payload that was stored.
C14_CacheRoundTrip ==
    [][\A f \in FetchIds :
         (/\ Lookup(f, FALSE)
          /\ hasCaches
          /\ Cached(f) \in DOMAIN written
          /\ now - written[Cached(f)].at < CACHE_EXPIRY)
         => /\ fetches'[f].hit
            /\ fetches'[f].result = written[Cached(f)].data
            /\ fetches'[f].pc = "instantiate"]_vars

C14_Witness ==
    \E f \in FetchIds :
        /\ fetches[f].hit
        /\ Cached(f) \in DOMAIN written
        /\ fetches[f].result = written[Cached(f)].data
        /\ fetches[f].result = Content(fetches[f].path, version)
        /\ now > written[Cached(f)].at

OtherVersions(f) ==
    {v \in Versions \ {version} : <<fetches[f].path, v>> \in DOMAIN written}

\* C16: version isolation. A lookup returns only a payload that was stored
\* under the running version: when the cache holds the path under another
\* version only, the lookup is a miss and the load goes on to fetch the
\* payload from the network.
C16_VersionIsolation ==
    [][\A f \in FetchIds : \A err \in BOOLEAN :
         Lookup(f, err) =>
            /\ fetches'[f].hit =>
                  /\ Cached(f) \in DOMAIN written
                  /\ fetches'[f].result = Content(fetches[f].path, version)
            /\ Cached(f) \notin DOMAIN written =>
                  /\ ~fetches'[f].hit
                  /\ fetches'[f].pc = "response"]_vars

C16_Witness ==
    \E f \in FetchIds :
        /\ fetches[f].pc = "response"
        /\ hasCaches
        /\ ~fetches[f].warned
        /\ Cached(f) \notin DOMAIN written
        /\ \E v \in OtherVersions(f) :
              now - written[<<fetches[f].path, v>>].at < CACHE_EXPIRY

\* C17: storage unavailable. Without a window or without 'caches' in it,
\* getCachedWasm finds nothing, cacheWasm and clearCache leave the storage
\* as it is, getCacheInfo answers size 0 and no entries, and none of them
\* makes the load fail.
C17_StorageUnavailable ==
    [][~hasCaches =>
         /\ \A f \in FetchIds :
               /\ Lookup(f, FALSE) =>
                     /\ ~fetches'[f].hit
                     /\ ~fetches'[f].warned
                     /\ fetches'[f].pc = "response"
               /\ End(f) =>
                     /\ fetches'[f].pc = "instantiate"
                     /\ fetches'[f].result = Content(fetches[f].path, version)
                     /\ store' = store
               /\ fetches[f].pc \notin {"lookup", "put", "expire"} =>
                     fetches'[f].pc \notin {"put", "expire"}
         /\ ClearCache(FALSE) => store' = store
         /\ GetCacheInfo(FALSE) => info' = [size |-> 0, entries |-> {}]
         /\ store' = store]_vars

C17_Witness ==
    /\ ~hasCaches
    /\ store # << >>
    /\ info = [size |-> 0, entries |-> {}]
    /\ \E f \in FetchIds : /\ fetches[f].pc = "instantiate"
                            /\ ~fetches[f].hit
                            /\ NormalKey(fetches[f]) \in DOMAIN store

\* C18: cache failures never propagate. An error of the storage during the
\* lookup (or during the deletion of an expired entry) makes the lookup a
\* miss and the load goes on to the network; an error while storing leaves
\* the fetch successful: fetchWasmWithProgress returns the payload whenever
\* the network fetch delivered it.
C18_CacheFailuresSwallowed ==
    [][\A f \in FetchIds :
         /\ (Lookup(f, TRUE) \/ Expire(f, TRUE)) =>
               /\ ~fetches'[f].hit
               /\ fetches'[f].pc = "response"
         /\ (\E err \in BOOLEAN : Put(f, err)) =>
               /\ fetches'[f].pc = "instantiate"
               /\ fetches'[f].result = Content(fetches[f].path, version)
         /\ Put(f, TRUE) => store' = store]_vars

C18_Witness ==
    \E f \in FetchIds :
        /\ fetches[f].pc = "instantiate"
        /\ fetches[f].warned
        /\ ~fetches[f].hit
        /\ fetches[f].result = Content(fetches[f].path, version)
        /\ store = << >>
        /\ nSessions = 1
        /\ nFetches = 1

\* Order of two percent values.
Le(a, b) == a[1] * b[2] <= b[1] * a[2]

\* C19: progress monotonicity. Within one load attempt the percent values
\* handed to the progress callback never decrease, on every path of the
\* load.
C19_ProgressMonotonic ==
    \A f \in FetchIds :
        \A i \in 1..(Len(fetches[f].percents) - 1) :
            Le(fetches[f].percents[i], fetches[f].percents[i + 1])

\* C20: progress range. Every percent value handed to the progress callback
\* lies between 0 and 100, whatever content length the response declares
\* and however the body arrives.
C20_ProgressRange ==
    \A f \in FetchIds :
        \A i \in 1..Len(fetches[f].percents) :
            /\ Le(Pct(0), fetches[f].percents[i])
            /\ Le(fetches[f].percents[i], Pct(100))

\* ---------------------------------------------------------------------
\* Properties of the loader's contract
\* ---------------------------------------------------------------------

LoadTypes == {"LOAD_CRYPTO", "LOAD_DID"}

\* A step that starts no load, posts and queues no LOAD_ message, and leaves
\* the loaded flags, the in-flight entries and the execution mode as they
\* are.
NothingLoaded ==
    /\ loaded' = loaded
    /\ loadingPromises' = loadingPromises
    /\ useWebWorker' = useWebWorker
    /\ started' = started
    /\ Running' = Running
    /\ \A x \in inbox' \ inbox : x.type \notin LoadTypes
    /\ \A r \in ReqIds : reqs'[r] # reqs[r] => reqs'[r].type \notin LoadTypes

\* C21: load is idempotent once Ready. With the loaded flag of a module set,
\* loadCrypto()/loadDID(), called directly or by a helper such as
\* generateKeyPair, starts no load (no probe, no fetch, no instantiation),
\* posts and queues no LOAD_ message, and leaves the loaded flags, the
\* in-flight entries and the execution mode as they are: a step that does
\* any of this is not such a call.
C21_LoadIdempotentOnceReady ==
    [][\A m \in Modules :
         (loaded[m] /\ ~NothingLoaded) =>
            /\ ~LoadModule(m)
            /\ m = "crypto" => ~\E op \in LoaderOps : GenerateKeyPair(op)]_vars

C21_Witness ==
    /\ loaded["crypto"]
    /\ loadingPromises["crypto"] = 0
    /\ Running = {}
    /\ \E r \in ReqIds : /\ reqs[r].type = "EXECUTE_WASM_FUNCTION"
                          /\ reqs[r].pc # "none"

\* C22: execution mode decision. A load goes to the worker only if Web
\* Workers are supported, useWebWorker was set when the load read it, and
\* the probe reported a size below the threshold; with any other answer of
\* the probe (a size equal to the threshold, no size, a failed probe) the
\* load goes to the main thread.
C22_ModeDecision ==
    [][\A l \in LoadIds : \A probe \in Probes :
         ProbeDone(l, shouldUseMainThreadForFile(probe)) =>
            /\ loads'[l].phase \in {"worker", "inline"}
            /\ loads'[l].phase = "worker" <=>
                  /\ checkWebWorkerSupport
                  /\ loads[l].wws
                  /\ probe.ok
                  /\ probe.size >= 0
                  /\ probe.size < LARGE_WASM_THRESHOLD]_vars

\* C23: function not available. A call of a function the module has not
\* installed fails, in both modes and for every helper, with the error of an
\* explicit check made before the call.
C23_FunctionNotAvailable ==
    (call.pc = "done" /\ ~call.present) =>
        call.status = "thrown" /\ call.cause = "check"

\* C24: raw text. When the function returns a text that is no JSON, the
\* call returns that text unchanged and raises no error, in both modes.
C24_RawTextReturned ==
    (call.pc = "done" /\ call.present /\ ~JSONparse(call.text).ok
       /\ call.cause # "channel") =>
        call.status = "returned" /\ call.value = StringValue(call.text)

\* C25: with a cold cache, a load of a module that two concurrent callers
\* have awaited and that has resolved has marked the module loaded and has
\* made exactly one fetch and exactly one cache write of its payload,
\* whichever the execution mode.
C25_OneFetchOneWrite ==
    \A l \in LoadIds :
       (loads[l].phase = "resolved" /\ loads[l].callers = 2) =>
          /\ loaded[loads[l].kind]
          /\ traffic.fetched[loads[l].kind] = 1
          /\ traffic.cached[loads[l].kind] = 1

\* C26: the load state of a module only moves forward: no operation of the
\* loader (cleanup, resetToMainThread, terminateWorker, a loadBoth that
\* fails) takes a module that is loaded back to not loaded.
C26_LoadStateForward ==
    [][\A m \in Modules : loaded[m] => loaded'[m]]_vars

Fallback(m) ==
    {l \in Running : loads[l].kind = m /\ loads[l].phase = "inline"
                                       /\ loads[l].workerFailed}

\* C28: while a load of a module is performing its inline fallback after
\* the failure of the worker load, a further load call for that module
\* starts no second load: the loads in progress stay the ones there were.
C28_NoSecondLoadDuringFallback ==
    [][\A m \in Modules :
         (Fallback(m) # {} /\ LoadModule(m)) => Running' \subseteq Running]_vars

\* C29: a reset of the loader (resetToMainThread, cleanup,
\* reloadWASMModules) invalidates the loads in flight: whatever a load
\* started before the reset does afterwards, when it goes on, completes or
\* fails, it sets no loaded flag and it leaves in place the in-flight entry
\* of a load started after the reset.
C29_ResetInvalidatesLoads ==
    [][\A l \in stale \cap Running :
         loads'[l] # loads[l] =>
            /\ loaded' = loaded
            /\ \A m \in Modules :
                  loadingPromises[m] \in Running \ stale =>
                     loadingPromises'[m] = loadingPromises[m]]_vars

\* C30: once the failure of a worker load has downgraded the loader, the
\* worker is discarded: no worker is alive while the inline retry of the
\* load runs, and a resetToMainThread or terminateWorker called on the
\* downgraded loader leaves no worker alive.
C30_WorkerDiscarded ==
    [][/\ \A l \in LoadIds :
            (loads'[l].phase = "inline" /\ loads'[l].workerFailed) => alive' = {}
       /\ (~useWebWorker /\ (ResetToMainThread \/ TerminateWorker)) =>
             alive' = {}]_vars

\* C31: a function of a loaded module is invoked in the context in which
\* the module was instantiated: when generateKeyPair() is called right after
\* a load of the crypto module has resolved, the call goes to the worker
\* exactly when that load was served by the worker, and stays on the main
\* thread exactly when the load ran on the main thread.
C31_RoutedToLoadingContext ==
    [][\A l \in LoadIds :
         (/\ loads[l].phase = "resolved" /\ loads[l].kind = "crypto"
          /\ loaded["crypto"]
          /\ \E op \in LoaderOps : GenerateKeyPair(op)) =>
            (nReq' > nReq <=> loads[l].inlineTries = 0)]_vars

\* The workers request r has been posted to.
PostedTo(r) ==
    {m.w : m \in {x \in inbox : x.id = reqs[r].id}}
       \cup {a.w : a \in {x \in answered : x.id = reqs[r].id}}

\* C32: every load attempt in the worker gets a worker of its own: no two
\* load requests (of the two modules, or of the same module again) are
\* posted to the same worker.
C32_FreshWorkerPerLoad ==
    \A r1, r2 \in ReqIds :
       (r1 # r2 /\ reqs[r1].type \in LoadTypes /\ reqs[r2].type \in LoadTypes) =>
          PostedTo(r1) \cap PostedTo(r2) = {}

\* C33: when a load completes successfully its in-flight entry
\* (loadingPromises.crypto, .did or .both) is deleted: no entry of the map
\* holds a promise that has resolved.
C33_EntryDeletedOnSuccess ==
    \A k \in Modules \cup {"both"} : loadingPromises[k] # Done

\* C34: once a load of a module has failed, the module has no in-flight
\* entry and its loaded flag is false, so that the next load call starts a
\* new attempt; and once a loadBoth has failed, loadingPromises.both does
\* not hold its rejected promise.
C34_RetryAfterFailure ==
    /\ \A l \in LoadIds :
          loads[l].phase = "rejected" =>
             /\ loadingPromises[loads[l].kind] = 0
             /\ ~loaded[loads[l].kind]
    /\ \A b \in BothIds :
          boths[b].state = "rejected" =>
             \/ loadingPromises["both"] = 0
             \/ /\ loadingPromises["both"] > 0
                /\ boths[loadingPromises["both"]].state = "running"

\* C35: the cache is written only after a fetch of the payload has
\* succeeded: an entry is added or replaced only by the cacheWasm of a run
\* that has read the whole body, and a run whose fetch fails (non-success
\* status, no body, or a read that rejects) leaves fetchWasmWithProgress by
\* its error path with the cache as it was.
C35_CacheWrittenAfterFetch ==
    [][/\ (\E k \in DOMAIN store' : k \notin DOMAIN store \/ store'[k] # store[k]) =>
             \E f \in FetchIds :
                /\ fetches[f].pc = "put"
                /\ fetches[f].received = Len(Content(fetches[f].path, version))
                /\ fetches[f].result = Content(fetches[f].path, version)
                /\ fetches'[f].pc = "instantiate"
       /\ \A f \in FetchIds :
             (/\ fetches[f].pc \in {"response", "body"}
              /\ fetches'[f].pc \in {"streaming", "failed"}) => store' = store]_vars

\* A fetch has failed in the middle of the body and nothing has been
\* cached for its path.
C35_Witness ==
    \E f \in FetchIds :
       /\ fetches[f].pc \in {"streaming", "failed"}
       /\ fetches[f].received > 0
       /\ fetches[f].received < Len(Content(fetches[f].path, version))
       /\ <<fetches[f].path, version>> \notin DOMAIN written

\* C36: an entry of the loader's cache is removed only by the expiry found
\* during a lookup or by an explicit clearCache(): on a page that never
\* calls clearCache(), every entry that disappears is an expired one, and
\* disappears in a lookup; the activation of the service worker removes
\* none.
C36_RemovedByExpiryOrClear ==
    [][\A k \in DOMAIN store :
         k \notin DOMAIN store' =>
            /\ ~isFresh(store[k])
            /\ \E f \in FetchIds : fetches[f].pc = "expire"]_vars

\* C37: the correlation ids are strictly increasing and never reused over
\* the life of the channel, terminate() and re-initialization included: the
\* counter never goes back, a request that is posted gets an id no request
\* has had before, and no two requests share an id (so that a response to a
\* request of an earlier worker cannot settle a request of a later one).
C37_IdsNeverReused ==
    [][/\ messageId' >= messageId
       /\ \A r \in ReqIds :
             reqs'[r].id # reqs[r].id =>
                /\ reqs[r].id = -1
                /\ reqs'[r].id >= messageId
                /\ reqs'[r].id < messageId'
       /\ \A r1, r2 \in ReqIds :
             (r1 # r2 /\ reqs'[r1].id >= 0 /\ reqs'[r2].id >= 0) =>
                reqs'[r1].id # reqs'[r2].id]_vars

\* A request has been posted to the second worker, after terminate() or a
\* retry, with a larger id than a request posted before it.
C37_Witness ==
    \E r1, r2 \in ReqIds :
       /\ reqs[r1].id >= 0
       /\ reqs[r1].pc \in Settled
       /\ PostedTo(r1) = {}
       /\ PostedTo(r2) = {2}
       /\ reqs[r2].id > reqs[r1].id

\* C38: a message is posted only when the channel is ready: whenever
\* isReady is true the current worker exists and is a worker that has sent
\* WORKER_READY, and every message handed to a worker was handed to one
\* that is alive and has signalled its readiness.
C38_PostedOnlyWhenReady ==
    /\ isReady => (worker # 0 /\ worker \in readySent)
    /\ \A m \in inbox : m.w \in alive /\ m.w \in readySent

\* C39: terminate() cancels the initialization in progress: when the 10 s
\* timer of an initialization that was pending at a terminate() (it is
\* pending and is no longer the memoized one) fires, no worker is
\* terminated, replaced or created.
C39_TerminateCancelsInit ==
    [][\A p \in InitIds :
         (/\ inits[p].timer /\ inits[p].state = "pending" /\ initPromise # p
          /\ InitTimeout(p)) =>
            (alive' = alive /\ worker' = worker /\ created' = created)]_vars

\* C40: the status query (getWorkerStatus, pingWorker) is read-only: it
\* changes neither the execution mode, nor the loaded flags, nor the
\* in-flight entries, and it creates no worker when none exists.
C40_StatusReadOnly ==
    [][(\E op \in StatusOps : GetWorkerStatus(op)) =>
          /\ UNCHANGED <<useWebWorker, loaded, loadingPromises>>
          /\ alive = {} => alive' = {}]_vars

====
